---- MODULE Spec2Model ----
(***************************************************************************)
(* Policy / Value / PolicyAndValue head factories of trax/models/rl.py and *)
(* the shape contract of inputs.pad_to_max_dims exercised by              *)
(* trax/supervised/inputs_test.py.                                         *)
(*                                                                         *)
(* The factories are pure functions from their arguments to a layer tree.  *)
(* A layer is a record with a "kind" field; a model is the record built by *)
(* Serial.  Python's None is the empty tuple; an optional number x is the  *)
(* one-element tuple <<x>>.                                                *)
(***************************************************************************)
EXTENDS Integers, Sequences, FiniteSets, TLC

VARIABLES pc, called, args, result

vars == <<pc, called, args, result>>

(***************************************************************************)
(* Bounds of the explored argument space.                                  *)
(***************************************************************************)
MaxFactoryLayers == 2
MaxNInputs == 2
MaxInitRange == 1
MaxInjectLayers == 2
MaxInjectDim == 2
MaxTensors == 2
MaxBoundary == 12

None == <<>>

Modes == {"train", "eval", "predict"}

(***************************************************************************)
(* Layer library surface (trax.layers, trax.models.PureMLP).               *)
(***************************************************************************)
RandomUniformInitializer(lim) ==
  [kind |-> "RandomUniformInitializer", lim |-> lim]

\* tl.Dense(n_units, **kwargs): kwargs is the set of keyword bindings passed.
Dense(n_units, kwargs) ==
  [kind |-> "Dense", n_units |-> n_units, kwargs |-> kwargs]

Add == [kind |-> "Add"]

Parallel(layers) == [kind |-> "Parallel", sublayers |-> layers]

Branch(layers) == [kind |-> "Branch", sublayers |-> layers]

PureMLP(layer_widths, out_activation, flatten, mode) ==
  [kind |-> "PureMLP", layer_widths |-> layer_widths,
   out_activation |-> out_activation, flatten |-> flatten, mode |-> mode]

RECURSIVE Flatten(_)
\* Concatenation of a sequence of layer lists.
Flatten(lists) ==
  IF lists = <<>> THEN <<>> ELSE Head(lists) \o Flatten(Tail(lists))

\* tl.Serial(*args): every argument is a list of layers (a single layer is
\* passed as a one-element list); nested lists are flattened in order.
Serial(lists) == [kind |-> "Serial", sublayers |-> Flatten(lists)]

(***************************************************************************)
(* Caller-supplied factories: body and normalizer are callables taking     *)
(* mode and returning a list of layers.  A factory is identified by its    *)
(* role and the number of layers it returns.                               *)
(***************************************************************************)
Factories(role) ==
  {[role |-> role, n_layers |-> n] : n \in 0..MaxFactoryLayers}

\* f(mode=mode) for a caller-supplied factory f.
Apply(f, mode) ==
  [i \in 1..f.n_layers |-> [kind |-> f.role, index |-> i, mode |-> mode]]

\* lambda mode: []
EmptyFactory == [role |-> "lambda", n_layers |-> 0]

(***************************************************************************)
(* trax/models/rl.py                                                       *)
(***************************************************************************)
\* Variant: tests the truth value of head_init_range instead of "is not None".
HeadKwargsTruthy(head_init_range) ==
  IF head_init_range # None /\ head_init_range[1] # 0
    THEN {[key |-> "kernel_initializer",
           value |-> RandomUniformInitializer(head_init_range[1])]}
    ELSE {}

HeadKwargs(head_init_range) ==
  IF head_init_range # None
    THEN {[key |-> "kernel_initializer",
           value |-> RandomUniformInitializer(head_init_range[1])]}
    ELSE {}

\* Variant: body layers placed before the normalizer layers.
PolicyBodyFirst(policy_distribution, body, normalizer, head_init_range, mode) ==
  LET body_ == IF body = None THEN EmptyFactory ELSE body
      normalizer_ == IF normalizer = None THEN EmptyFactory ELSE normalizer
      head_kwargs == HeadKwargs(head_init_range)
  IN  Serial(<<Apply(body_, mode),
               Apply(normalizer_, mode),
               <<Dense(policy_distribution.n_inputs, head_kwargs)>>>>)

Policy(policy_distribution, body, normalizer, head_init_range, mode) ==
  LET body_ == IF body = None THEN EmptyFactory ELSE body
      normalizer_ == IF normalizer = None THEN EmptyFactory ELSE normalizer
      head_kwargs == HeadKwargs(head_init_range)
  IN  Serial(<<Apply(normalizer_, mode),
               Apply(body_, mode),
               <<Dense(policy_distribution.n_inputs, head_kwargs)>>>>)

\* Variant: the injector is built whenever it has layers to build, whatever
\* inject_actions says.
ActionInjectorByLayers(inject_actions, inject_actions_n_layers, inject_actions_dim, mode) ==
  IF inject_actions \/ inject_actions_n_layers > 0
    THEN <<Serial(<<
           <<Parallel(<<Dense(inject_actions_dim, {}),
                        Dense(inject_actions_dim, {})>>)>>,
           <<Add>>,
           <<PureMLP([i \in 1..inject_actions_n_layers |-> inject_actions_dim],
                     TRUE, FALSE, mode)>> >>)>>
    ELSE <<>>

ActionInjector(inject_actions, inject_actions_n_layers, inject_actions_dim, mode) ==
  IF inject_actions
    THEN <<Serial(<<
           <<Parallel(<<Dense(inject_actions_dim, {}),
                        Dense(inject_actions_dim, {})>>)>>,
           <<Add>>,
           <<PureMLP([i \in 1..inject_actions_n_layers |-> inject_actions_dim],
                     TRUE, FALSE, mode)>> >>)>>
    ELSE <<>>

\* Variant: the value head is sized by inject_actions_dim when actions are
\* injected.
ValueWideHead(body, normalizer, inject_actions, inject_actions_n_layers, inject_actions_dim, mode) ==
  LET body_ == IF body = None THEN EmptyFactory ELSE body
      normalizer_ == IF normalizer = None THEN EmptyFactory ELSE normalizer
  IN  Serial(<<Apply(normalizer_, mode),
               Apply(body_, mode),
               ActionInjector(inject_actions, inject_actions_n_layers,
                              inject_actions_dim, mode),
               <<Dense(IF inject_actions THEN inject_actions_dim ELSE 1,
                       {})>>>>)

Value(body, normalizer, inject_actions, inject_actions_n_layers, inject_actions_dim, mode) ==
  LET body_ == IF body = None THEN EmptyFactory ELSE body
      normalizer_ == IF normalizer = None THEN EmptyFactory ELSE normalizer
  IN  Serial(<<Apply(normalizer_, mode),
               Apply(body_, mode),
               ActionInjector(inject_actions, inject_actions_n_layers,
                              inject_actions_dim, mode),
               <<Dense(1, {})>>>>)

\* policy_top and value_top keep their defaults (Policy, Value); they are
\* called with the keyword arguments the source passes and defaults elsewhere.
PolicyAndValue(policy_distribution, body, normalizer, head_init_range, mode) ==
  LET head_kwargs == HeadKwargs(head_init_range)
      normalizer_ == IF normalizer = None THEN EmptyFactory ELSE normalizer
      body_ == IF body = None THEN EmptyFactory ELSE body
  IN  Serial(<<Apply(normalizer_, mode),
               Apply(body_, mode),
               <<Branch(<<Policy(policy_distribution, None, None, None, mode),
                          Value(None, None, FALSE, 1, 64, mode)>>)>>>>)

(***************************************************************************)
(* Argument space of one call.                                             *)
(***************************************************************************)
RLArgs ==
  [policy_distribution : {[n_inputs |-> n] : n \in 1..MaxNInputs},
   body : {None} \cup Factories("body"),
   normalizer : {None} \cup Factories("normalizer"),
   head_init_range : {None} \cup {<<r>> : r \in 0..MaxInitRange},
   inject_actions : BOOLEAN,
   inject_actions_n_layers : 0..MaxInjectLayers,
   inject_actions_dim : 1..MaxInjectDim,
   mode : Modes]

Init ==
  /\ pc = "start"
  /\ called = "none"
  /\ args \in RLArgs
  /\ result = None

CallPolicy ==
  /\ pc = "start"
  /\ pc' = "done"
  /\ called' = "Policy"
  /\ result' = Policy(args.policy_distribution, args.body, args.normalizer,
                      args.head_init_range, args.mode)
  /\ UNCHANGED args

CallValue ==
  /\ pc = "start"
  /\ pc' = "done"
  /\ called' = "Value"
  /\ result' = Value(args.body, args.normalizer, args.inject_actions,
                     args.inject_actions_n_layers, args.inject_actions_dim,
                     args.mode)
  /\ UNCHANGED args

CallPolicyAndValue ==
  /\ pc = "start"
  /\ pc' = "done"
  /\ called' = "PolicyAndValue"
  /\ result' = PolicyAndValue(args.policy_distribution, args.body,
                              args.normalizer, args.head_init_range, args.mode)
  /\ UNCHANGED args

Next == CallPolicy \/ CallValue \/ CallPolicyAndValue

Spec == Init /\ [][Next]_vars

(***************************************************************************)
(* trax.supervised.inputs.pad_to_max_dims, on shapes.  A tensor is its     *)
(* shape, a tuple of dimension sizes; the result is the shape of the       *)
(* returned array.                                                         *)
(***************************************************************************)
DimSizes == {2, 3, 8, 9, 10}

Ranks == {1, 2}

MaxOf(S) == CHOOSE m \in S : \A x \in S : x <= m

MinOf(S) == CHOOSE m \in S : \A x \in S : m <= x

RECURSIVE Pow2AtLeast(_, _)
\* Smallest p * 2^k that is >= n; Pow2AtLeast(n, 1) is 2**ceil(log2(n)).
Pow2AtLeast(n, p) == IF p >= n THEN p ELSE Pow2AtLeast(n, 2 * p)

\* Variant: without a boundary the first tensor's size is used.
max_len_to_padFirst(tensors, i, boundary) ==
  LET lens == {tensors[t][i] : t \in 1..Len(tensors)}
      max_len == MaxOf(lens)
      min_len == MinOf(lens)
  IN  IF max_len = min_len THEN max_len
      ELSE IF boundary = None THEN tensors[1][i]
      ELSE LET cur_boundary == MaxOf({max_len, boundary[1]})
           IN  IF 2 * max_len < cur_boundary
                 THEN Pow2AtLeast(max_len, 1)
                 ELSE cur_boundary

\* Variant: a dimension on which the inputs agree is raised to the boundary
\* as well.
max_len_to_padAlways(tensors, i, boundary) ==
  LET lens == {tensors[t][i] : t \in 1..Len(tensors)}
      max_len == MaxOf(lens)
  IN  IF boundary = None THEN max_len
      ELSE LET cur_boundary == MaxOf({max_len, boundary[1]})
           IN  IF 2 * max_len < cur_boundary
                 THEN Pow2AtLeast(max_len, 1)
                 ELSE cur_boundary

\* Padded size of dimension i: the common size when the inputs agree, the
\* maximum without a boundary, otherwise max(maximum, boundary), replaced by
\* the next power of two above the maximum when that is less than half of it
\* (the rule under which (2,10),(3,9) with boundary 12 pad to (4,12)).
max_len_to_pad(tensors, i, boundary) ==
  LET lens == {tensors[t][i] : t \in 1..Len(tensors)}
      max_len == MaxOf(lens)
      min_len == MinOf(lens)
  IN  IF max_len = min_len THEN max_len
      ELSE IF boundary = None THEN max_len
      ELSE LET cur_boundary == MaxOf({max_len, boundary[1]})
           IN  IF 2 * max_len < cur_boundary
                 THEN Pow2AtLeast(max_len, 1)
                 ELSE cur_boundary

pad_to_max_dims(tensors, boundary) ==
  LET dim == Len(tensors[1])
  IN  <<Len(tensors)>> \o [i \in 1..dim |-> max_len_to_pad(tensors, i, boundary)]

PadArgs ==
  [tensors : UNION {[1..n -> [1..r -> DimSizes]] :
                      n \in 1..MaxTensors, r \in Ranks},
   boundary : {None} \cup {<<b>> : b \in 1..MaxBoundary}]

PadInit ==
  /\ pc = "start"
  /\ called = "none"
  /\ args \in PadArgs
  /\ result = None

CallPadToMaxDims ==
  /\ pc = "start"
  /\ pc' = "done"
  /\ called' = "pad_to_max_dims"
  /\ result' = pad_to_max_dims(args.tensors, args.boundary)
  /\ UNCHANGED args

PadNext == CallPadToMaxDims

PadSpec == PadInit /\ [][PadNext]_vars

TypeOK == pc \in {"start", "done"}

(***************************************************************************)
(* Properties.                                                             *)
(***************************************************************************)
Done(f) == pc = "done" /\ called = f

\* Number of layers a possibly-None factory argument contributes.
Count(f) == IF f = None THEN 0 ELSE f.n_layers

Sub == result.sublayers

Last(s) == s[Len(s)]

\* Layers 1..nn are the normalizer's, nn+1..nn+nb the body's, in order and
\* built with the call's mode.
PrefixIsNormalizerThenBody ==
  LET nn == Count(args.normalizer)
      nb == Count(args.body)
  IN  /\ result.kind = "Serial"
      /\ Len(Sub) >= nn + nb
      /\ \A i \in 1..nn :
            Sub[i] = [kind |-> "normalizer", index |-> i, mode |-> args.mode]
      /\ \A i \in 1..nb :
            Sub[nn + i] = [kind |-> "body", index |-> i, mode |-> args.mode]

\* The layers after the normalizer and body layers.
HeadPart ==
  SubSeq(Sub, Count(args.normalizer) + Count(args.body) + 1, Len(Sub))

IsInjector(l) ==
  /\ l.kind = "Serial"
  /\ Len(l.sublayers) = 3
  /\ l.sublayers[1].kind = "Parallel"
  /\ Len(l.sublayers[1].sublayers) = 2
  /\ \A k \in 1..2 : l.sublayers[1].sublayers[k].kind = "Dense"
  /\ l.sublayers[2].kind = "Add"
  /\ l.sublayers[3].kind = "PureMLP"

\* C1: the model returned by Policy, Value and PolicyAndValue is a Serial of
\* the normalizer's layers, then the body's layers, then the head part (Dense
\* for Policy; optional injector then Dense for Value; one Branch of a policy
\* model and a value model for PolicyAndValue) and nothing else; a None body
\* or normalizer contributes no layer.
C1_Order ==
  /\ pc = "done" => PrefixIsNormalizerThenBody
  /\ Done("Policy") =>
        /\ Len(HeadPart) = 1
        /\ HeadPart[1].kind = "Dense"
  /\ Done("Value") =>
        /\ Len(HeadPart) = IF args.inject_actions THEN 2 ELSE 1
        /\ args.inject_actions => IsInjector(HeadPart[1])
        /\ Last(HeadPart).kind = "Dense"
  /\ Done("PolicyAndValue") =>
        /\ Len(HeadPart) = 1
        /\ HeadPart[1].kind = "Branch"
        /\ Len(HeadPart[1].sublayers) = 2
        /\ \A k \in 1..2 : HeadPart[1].sublayers[k].kind = "Serial"
        /\ Last(HeadPart[1].sublayers[1].sublayers).n_units
             = args.policy_distribution.n_inputs
        /\ Last(HeadPart[1].sublayers[2].sublayers).n_units = 1

C1_Witness ==
  /\ Done("Value")
  /\ args.inject_actions
  /\ args.body = None
  /\ args.normalizer # None
  /\ Count(args.normalizer) = 2
  /\ Len(Sub) = 4
  /\ Sub[1].kind = "normalizer"
  /\ IsInjector(Sub[3])

\* C2: in Value the injector layers are present iff inject_actions; without
\* inject_actions the model is exactly normalizer layers, body layers and
\* Dense(1), for every inject_actions_n_layers and inject_actions_dim.
C2_InjectorIff ==
  Done("Value") =>
    /\ (\E i \in 1..Len(Sub) : Sub[i].kind = "Serial" /\ IsInjector(Sub[i]))
          <=> args.inject_actions
    /\ \A i \in 1..Len(Sub) :
          Sub[i].kind \in {"Parallel", "Add", "PureMLP", "Serial"}
            => args.inject_actions
    /\ ~args.inject_actions =>
          Sub = [i \in 1..Count(args.normalizer) |->
                   [kind |-> "normalizer", index |-> i, mode |-> args.mode]]
                \o [i \in 1..Count(args.body) |->
                      [kind |-> "body", index |-> i, mode |-> args.mode]]
                \o <<[kind |-> "Dense", n_units |-> 1, kwargs |-> {}]>>

C2_Witness ==
  /\ Done("Value")
  /\ ~args.inject_actions
  /\ args.inject_actions_n_layers = 2
  /\ args.inject_actions_dim = 2
  /\ Count(args.body) = 1
  /\ Len(Sub) = 2
  /\ Sub[2].kind = "Dense"

\* C5: the last layer of Policy's model is Dense with
\* policy_distribution.n_inputs units; the last layer of Value's model is
\* Dense with 1 unit, for every argument combination.
C5_LastLayer ==
  /\ Done("Policy") =>
        /\ Last(Sub).kind = "Dense"
        /\ Last(Sub).n_units = args.policy_distribution.n_inputs
  /\ Done("Value") =>
        /\ Last(Sub).kind = "Dense"
        /\ Last(Sub).n_units = 1

C5_Witness ==
  /\ Done("Value")
  /\ args.inject_actions
  /\ args.inject_actions_dim = 2
  /\ args.inject_actions_n_layers = 2
  /\ Last(Sub).kind = "Dense"
  /\ Last(Sub).n_units = 1

\* The kernel_initializer bindings a Dense layer was built with.
KernelInitializers(dense) ==
  {kw.value : kw \in {k \in dense.kwargs : k.key = "kernel_initializer"}}

\* C7: Policy's head Dense gets a kernel_initializer iff head_init_range is
\* not None, and it is RandomUniformInitializer(lim = head_init_range), also
\* for head_init_range = 0.
C7_PolicyHeadInit ==
  Done("Policy") =>
    /\ (KernelInitializers(Last(Sub)) # {}) <=> (args.head_init_range # None)
    /\ args.head_init_range # None =>
          KernelInitializers(Last(Sub)) =
            {[kind |-> "RandomUniformInitializer",
              lim |-> args.head_init_range[1]]}
    /\ \A kw \in Last(Sub).kwargs : kw.key = "kernel_initializer"

C7_Witness ==
  /\ Done("Policy")
  /\ args.head_init_range = <<0>>
  /\ KernelInitializers(Last(Sub)) =
       {[kind |-> "RandomUniformInitializer", lim |-> 0]}

\* The policy head of PolicyAndValue's model: last layer of the first branch.
PolicyHeadOfBranch == Last(Last(Sub).sublayers[1].sublayers)

\* C6: in PolicyAndValue the policy head is built with the initializer that
\* Policy builds for the same policy_distribution and head_init_range
\* (RandomUniformInitializer(lim = head_init_range) when not None, the
\* default otherwise).
C6_HeadInitTakesEffect ==
  Done("PolicyAndValue") =>
    /\ KernelInitializers(PolicyHeadOfBranch) =
         (IF args.head_init_range = None THEN {}
          ELSE {[kind |-> "RandomUniformInitializer",
                 lim |-> args.head_init_range[1]]})
    /\ PolicyHeadOfBranch.n_units = args.policy_distribution.n_inputs

====
